---- MODULE Spec2Model ----
(***************************************************************************)
(* Zenith Broking API: the withdraw / transfer handlers of backend/main.py *)
(* over the store primitives of backend/database.py.                       *)
(*                                                                         *)
(* The store (MongoDB) and the payout gateway are external servers, so a   *)
(* handler's store operations are the atomic steps.  A handler is an async *)
(* function whose calls all block, so one worker runs it to its end; the   *)
(* interleavings are those of workers (processes, instances) that share    *)
(* the database.  Local computation (auth, the checks, the response)       *)
(* belongs to the step of the store call it follows or precedes, and the   *)
(* gateway call, which touches no shared state, to the step of the store   *)
(* call that follows it.  A request keeps the handler's live locals only;  *)
(* once the handler has returned, what is left of it is the response (and  *)
(* trace, the record of the I/O it performed, in order).                   *)
(*                                                                         *)
(* Amounts and balances are Python floats; they are modelled by integers,  *)
(* on which the float operations used here (+, unary -, <, <=) are exact.  *)
(* Non-finite floats (NaN, Infinity) are outside the model.                *)
(***************************************************************************)
EXTENDS Integers, Sequences, FiniteSets, Bags, TLC

\* ---------------------------------------------------------------- bounds
MaxAmount == 1      \* amounts and initial balances range up to this value
MaxClock == 1       \* the clock seconds that pass while the requests run

\* Two request slots and two client documents: the least that lets two
\* requests race on one client and a transfer move money between two.
Reqs == {1, 2}
ClientIds == {1, 2}
BadId == 0          \* an id string that is malformed or names no document ever
PayloadIds == ClientIds \cup {BadId}
Amounts == (-1)..MaxAmount
Capitals == 0..MaxAmount
Profits == {0}
Names == {"name"}                   \* the contact fields: name, email, phone
Notes == {<<"memo">>}               \* Optional[str]
NoHeader == <<>>
Headers == {NoHeader, <<"Basic ", "good">>, <<"Bearer ", "good">>,
            <<"Bearer ", "expired">>, <<"Bearer ", "forged">>}
Emails == {"admin@x"}
GatewayOutcomes == {"ok", "rejected", "exception"}

VARIABLES
    client,          \* db["client"]: id -> document
    transactionlog,  \* db["transactionlog"]: documents in insertion order
    admin,           \* db["admin"]: the emails that have an admin document
    req,             \* the withdraw / transfer requests: locals and position
    pre,             \* the store as it was when the running request arrived
                     \* (kept by the one-at-a-time specification only)
    now,             \* int(datetime.utcnow().timestamp()): the clock, in seconds
    sent             \* the payout requests the gateway has been sent (a bag)

store == <<client, transactionlog, admin>>
vars == <<client, transactionlog, admin, req, pre, now, sent>>

\* ------------------------------------------------------------ database.py
NoDoc == [present |-> FALSE, capital |-> 0, profit |-> 0, name |-> ""]

\* ObjectId(id_str) raises for a malformed string
ObjectIdValid(id_str) == id_str \in ClientIds

get_document_by_id(collection, id_str) ==
    IF ObjectIdValid(id_str) /\ collection[id_str].present
    THEN collection[id_str]
    ELSE NoDoc

\* (mutant) the update written with $set where $inc was meant
increment_field_by_id_set(collection, id_str, delta) ==
    IF ObjectIdValid(id_str) /\ collection[id_str].present
    THEN [collection EXCEPT ![id_str].capital = delta]
    ELSE collection

\* (mutant) a read-modify-write on the value read when the requests started
increment_field_by_id_stale(collection, id_str, delta) ==
    IF ObjectIdValid(id_str) /\ collection[id_str].present
    THEN [collection EXCEPT ![id_str].capital = pre.client[id_str].capital + delta]
    ELSE collection

\* (mutant) the document written back whole, its other fields at their defaults
increment_field_by_id_replace(collection, id_str, delta) ==
    IF ObjectIdValid(id_str) /\ collection[id_str].present
    THEN [collection EXCEPT ![id_str] =
            [present |-> TRUE, capital |-> @.capital + delta, profit |-> 0,
             name |-> @.name]]
    ELSE collection

\* the collection after update_one({"_id": ..}, {"$inc": {"capital": delta}})
increment_field_by_id(collection, id_str, delta) ==
    IF ObjectIdValid(id_str) /\ collection[id_str].present
    THEN [collection EXCEPT ![id_str].capital = @ + delta]
    ELSE collection

\* the collection after update_one({"_id": ..}, {"$set": data});
\* data gives each field as <<>> (not set) or <<value>>
update_document_by_id(collection, id_str, capital, profit) ==
    IF ObjectIdValid(id_str) /\ collection[id_str].present
    THEN [collection EXCEPT
            ![id_str].capital = IF capital = <<>> THEN @ ELSE capital[1],
            ![id_str].profit = IF profit = <<>> THEN @ ELSE profit[1]]
    ELSE collection

\* UpdateResult.modified_count of an update_one: the documents the update
\* changed; a document that matches and is left as it was does not count
modified_count(before, after) ==
    Cardinality({id \in ClientIds : before[id] # after[id]})

\* the value increment_field_by_id returns
increment_field_by_id_returns(collection, id_str, delta) ==
    IF ~ObjectIdValid(id_str)
    THEN FALSE
    ELSE modified_count(collection,
                        increment_field_by_id(collection, id_str, delta)) > 0

\* the value update_document_by_id returns
update_document_by_id_returns(collection, id_str, capital, profit) ==
    IF ~ObjectIdValid(id_str)
    THEN FALSE
    ELSE modified_count(collection,
             update_document_by_id(collection, id_str, capital, profit)) > 0

\* (mutant) the newest record replaced instead of a record added
create_document_replace(collection, data) ==
    IF collection = <<>>
    THEN <<data>>
    ELSE [collection EXCEPT ![Len(collection)] = data]

\* insert_one on the transactionlog collection; str(inserted_id) is the position
create_document(collection, data) == Append(collection, data)

\* (mutant) the id of the newest record there was before the insert
inserted_id_newest(collection) == Len(collection)

inserted_id(collection) == Len(collection) + 1

\* ----------------------------------------------------------------- auth
Authorized == [code |-> 200, detail |-> "ok"]

HTTPException(status_code, detail) == [code |-> status_code, detail |-> detail]

verify_jwt(token) ==
    CASE token = "good" -> Authorized
      [] token = "expired" -> HTTPException(401, "Token expired")
      [] OTHER -> HTTPException(401, "Invalid token")

\* create_jwt, called by admin_login alone, makes the tokens verify_jwt accepts
Issued(token) == token = "good" => admin # {}

\* (mutant) the scheme of the header not looked at
auth_dependency_any_scheme(authorization) ==
    IF authorization = NoHeader
    THEN HTTPException(401, "Authorization header missing")
    ELSE verify_jwt(authorization[2])

auth_dependency(authorization) ==
    IF authorization = NoHeader \/ authorization[1] # "Bearer "
    THEN HTTPException(401, "Authorization header missing")
    ELSE verify_jwt(authorization[2])

\* ------------------------------------------------------------- requests
Idle == [kind |-> "none", pc |-> "idle"]

Response(code, detail, log_id, rp_status, rp_body) ==
    [code |-> code, detail |-> detail, log_id |-> log_id,
     rp_status |-> rp_status, rp_body |-> rp_body]

Failure(exc) == Response(exc.code, exc.detail, 0, 0, "none")

\* requests.post(...): the provider's status and body, or the except branch
PayoutResult(outcome) ==
    CASE outcome = "ok" -> [status |-> 200, body |-> "payout"]
      [] outcome = "rejected" -> [status |-> 400, body |-> "bad_request"]
      [] OTHER -> [status |-> 500, body |-> "error"]

\* the json of requests.post: the fields that depend on the request
PayoutRequest(reference_id, amount) ==
    [reference_id |-> reference_id, amount |-> amount * 100]

\* f"wd_{payload.client_id}_{int(datetime.utcnow().timestamp())}"
WithdrawReferenceId(payload, timestamp) == <<"wd", payload.client_id, timestamp>>

\* f"tf_{payload.from_client_id}_{payload.to_client_id}_{int(...timestamp())}"
TransferReferenceId(payload, timestamp) ==
    <<"tf", payload.from_client_id, payload.to_client_id, timestamp>>

\* the gateway after one more request has been posted to it
Post(request) == sent (+) SetToBag({request})

Init ==
    /\ client = [c \in ClientIds |-> NoDoc]
    /\ transactionlog = <<>>
    /\ admin = {}
    /\ req = [r \in Reqs |-> Idle]
    /\ pre = [client |-> client, logs |-> 0]
    /\ now = 0
    /\ sent = EmptyBag

\* the handler returns or raises: its locals are gone, the response is out
Done(r, response, events) ==
    [kind |-> req[r].kind, pc |-> "done", response |-> response,
     trace |-> req[r].trace \o events]

Rejected(kind, exc) ==
    [kind |-> kind, pc |-> "done", response |-> Failure(exc), trace |-> <<>>]

\* slots are taken in order: which slot serves a request is immaterial
CanAdmit(r) ==
    /\ req[r].pc = "idle"
    /\ \A q \in Reqs : q < r => req[q].pc # "idle"

Admitted(kind, payload) ==
    [kind |-> kind, pc |-> "admitted", payload |-> payload,
     from_client |-> NoDoc, rp |-> [status |-> 0, body |-> "none"],
     trace |-> <<>>]

WithdrawPayloads ==
    [client_id : PayloadIds, amount : Amounts, note : Notes]

TransferPayloads ==
    [from_client_id : PayloadIds, to_client_id : PayloadIds,
     amount : Amounts, note : Notes]

\* the body of a request the handler never gets to see
AnyWithdraw == CHOOSE p \in WithdrawPayloads : TRUE
AnyTransfer == CHOOSE p \in TransferPayloads : TRUE

\* ------------------------------------------------------------- withdraw
\* (mutant) the comparison turned around
InsufficientBalanceReversed(doc, amount) == doc.capital > amount

\* (mutant) the balance check left out
InsufficientBalanceNever(doc, amount) == FALSE

InsufficientBalance(doc, amount) == doc.capital < amount

WithdrawLogRecord(payload, rp) ==
    [client_id |-> payload.client_id, amount |-> payload.amount,
     action |-> "withdraw", note |-> payload.note, external |-> rp]

\* POST /api/withdraw with this header and body: Depends(auth_dependency)
\* runs first, and the handler (which alone sees the payload) only after it
WithdrawRequest(r, authorization, payload) ==
    LET a == auth_dependency(authorization)
    IN req' = [req EXCEPT ![r] =
          IF a.code # 200
          THEN Rejected("withdraw", a)
          ELSE [Admitted("withdraw", payload) EXCEPT !.pc = "w_lookup"]]

WithdrawArrives(r) ==
    /\ CanAdmit(r)
    /\ \E authorization \in Headers :
         /\ authorization # NoHeader => Issued(authorization[2])
         /\ IF auth_dependency(authorization).code # 200
            THEN WithdrawRequest(r, authorization, AnyWithdraw)
            ELSE \E payload \in WithdrawPayloads :
                   WithdrawRequest(r, authorization, payload)
    /\ UNCHANGED store

WithdrawAdmit(r) == WithdrawArrives(r) /\ UNCHANGED <<pre, now, sent>>

\* get_document_by_id and the two checks
WithdrawLookup(r) ==
    /\ req[r].pc = "w_lookup"
    /\ LET doc == get_document_by_id(client, req[r].payload.client_id)
       IN req' = [req EXCEPT ![r] =
            IF ~doc.present
            THEN Done(r, Failure(HTTPException(404, "Client not found")), <<"lookup">>)
            ELSE IF InsufficientBalance(doc, req[r].payload.amount)
            THEN Done(r, Failure(HTTPException(400, "Insufficient balance")), <<"lookup">>)
            ELSE [req[r] EXCEPT !.pc = "w_payout", !.trace = Append(@, "lookup")]]
    /\ UNCHANGED <<store, pre, now, sent>>

\* (mutant) the decrement made only while the balance still covers it
WithdrawPayoutIfCovered(r) ==
    /\ req[r].pc = "w_payout"
    /\ \E outcome \in GatewayOutcomes :
         req' = [req EXCEPT ![r].pc = "w_log", ![r].rp = PayoutResult(outcome),
                            ![r].trace = @ \o <<"payout", "inc">>]
    /\ client' = IF InsufficientBalance(client[req[r].payload.client_id],
                                        req[r].payload.amount)
                 THEN client
                 ELSE increment_field_by_id(client, req[r].payload.client_id,
                                            -req[r].payload.amount)
    /\ sent' = Post(PayoutRequest(WithdrawReferenceId(req[r].payload, now),
                                  req[r].payload.amount))
    /\ UNCHANGED <<transactionlog, admin, pre, now>>

\* (mutant) the decrement made only when the provider accepted the payout
WithdrawPayoutIfPaid(r) ==
    /\ req[r].pc = "w_payout"
    /\ \E outcome \in GatewayOutcomes :
         /\ req' = [req EXCEPT ![r].pc = "w_log", ![r].rp = PayoutResult(outcome),
                               ![r].trace = @ \o <<"payout", "inc">>]
         /\ client' = IF PayoutResult(outcome).status = 200
                      THEN increment_field_by_id(client, req[r].payload.client_id,
                                                 -req[r].payload.amount)
                      ELSE client
    /\ sent' = Post(PayoutRequest(WithdrawReferenceId(req[r].payload, now),
                                  req[r].payload.amount))
    /\ UNCHANGED <<transactionlog, admin, pre, now>>

\* requests.post to the payout provider, every failure caught by the except
\* branch; when the call has returned, the decrement, whatever the outcome
WithdrawPayout(r) ==
    /\ req[r].pc = "w_payout"
    /\ \E outcome \in GatewayOutcomes :
         req' = [req EXCEPT ![r].pc = "w_log", ![r].rp = PayoutResult(outcome),
                            ![r].trace = @ \o <<"payout", "inc">>]
    /\ client' = increment_field_by_id(client, req[r].payload.client_id,
                                       -req[r].payload.amount)
    /\ sent' = Post(PayoutRequest(WithdrawReferenceId(req[r].payload, now),
                                  req[r].payload.amount))
    /\ UNCHANGED <<transactionlog, admin, pre, now>>

WithdrawLog(r) ==
    /\ req[r].pc = "w_log"
    /\ transactionlog' = create_document(transactionlog,
                             WithdrawLogRecord(req[r].payload, req[r].rp))
    /\ req' = [req EXCEPT ![r] =
                 Done(r, Response(200, "processed", inserted_id(transactionlog),
                                  req[r].rp.status, req[r].rp.body), <<"insert">>)]
    /\ UNCHANGED <<client, admin, pre, now, sent>>

\* ------------------------------------------------------------- transfer
\* (mutant) zero let through
InvalidAmountNegativeOnly(amount) == amount < 0

InvalidAmount(amount) == amount <= 0

\* (mutant) the record keyed to the source of the transfer
TransferLogRecordFrom(payload, rp) ==
    [client_id |-> payload.from_client_id, amount |-> payload.amount,
     action |-> "transfer", note |-> payload.note, external |-> rp]

TransferLogRecord(payload, rp) ==
    [client_id |-> payload.to_client_id, amount |-> payload.amount,
     action |-> "transfer", note |-> payload.note, external |-> rp]

\* POST /api/transfer with this header and body: auth, then the amount check
TransferRequest(r, authorization, payload) ==
    LET a == auth_dependency(authorization)
    IN req' = [req EXCEPT ![r] =
          IF a.code # 200
          THEN Rejected("transfer", a)
          ELSE IF InvalidAmount(payload.amount)
          THEN Rejected("transfer", HTTPException(400, "Invalid amount"))
          ELSE [Admitted("transfer", payload) EXCEPT !.pc = "t_lookup_from"]]

TransferArrives(r) ==
    /\ CanAdmit(r)
    /\ \E authorization \in Headers :
         /\ authorization # NoHeader => Issued(authorization[2])
         /\ IF auth_dependency(authorization).code # 200
            THEN TransferRequest(r, authorization, AnyTransfer)
            ELSE \E payload \in TransferPayloads :
                   TransferRequest(r, authorization, payload)
    /\ UNCHANGED store

TransferAdmit(r) == TransferArrives(r) /\ UNCHANGED <<pre, now, sent>>

\* (mutant) the handler holding back while another request is being served
TransferLookupFromWaits(r) ==
    /\ req[r].pc = "t_lookup_from"
    /\ \A q \in Reqs \ {r} : req[q].pc \in {"idle", "done"}
    /\ req' = [req EXCEPT ![r].pc = "t_lookup_to",
                 ![r].from_client =
                     get_document_by_id(client, req[r].payload.from_client_id),
                 ![r].trace = Append(@, "lookup")]
    /\ UNCHANGED <<store, pre, now, sent>>

TransferLookupFrom(r) ==
    /\ req[r].pc = "t_lookup_from"
    /\ req' = [req EXCEPT ![r].pc = "t_lookup_to",
                 ![r].from_client =
                     get_document_by_id(client, req[r].payload.from_client_id),
                 ![r].trace = Append(@, "lookup")]
    /\ UNCHANGED <<store, pre, now, sent>>

\* (mutant) the debit made before the destination is looked up
TransferLookupToAfterDebit(r) ==
    /\ req[r].pc = "t_lookup_to"
    /\ LET to_client == get_document_by_id(client, req[r].payload.to_client_id)
       IN req' = [req EXCEPT ![r] =
            IF ~req[r].from_client.present \/ ~to_client.present
            THEN Done(r, Failure(HTTPException(404, "Client not found")), <<"lookup">>)
            ELSE IF InsufficientBalance(req[r].from_client, req[r].payload.amount)
            THEN Done(r, Failure(HTTPException(400, "Insufficient balance")), <<"lookup">>)
            ELSE [req[r] EXCEPT !.pc = "t_dec", !.from_client = NoDoc,
                                !.trace = Append(@, "lookup")]]
    /\ client' = increment_field_by_id(client, req[r].payload.from_client_id,
                                       -req[r].payload.amount)
    /\ UNCHANGED <<transactionlog, admin, pre, now, sent>>

\* the second lookup and the two checks
TransferLookupTo(r) ==
    /\ req[r].pc = "t_lookup_to"
    /\ LET to_client == get_document_by_id(client, req[r].payload.to_client_id)
       IN req' = [req EXCEPT ![r] =
            IF ~req[r].from_client.present \/ ~to_client.present
            THEN Done(r, Failure(HTTPException(404, "Client not found")), <<"lookup">>)
            ELSE IF InsufficientBalance(req[r].from_client, req[r].payload.amount)
            THEN Done(r, Failure(HTTPException(400, "Insufficient balance")), <<"lookup">>)
            ELSE [req[r] EXCEPT !.pc = "t_dec", !.from_client = NoDoc,
                                !.trace = Append(@, "lookup")]]
    /\ UNCHANGED <<store, pre, now, sent>>

\* (mutant) the destination credited first
TransferDecrementCredit(r) ==
    /\ req[r].pc = "t_dec"
    /\ client' = increment_field_by_id(client, req[r].payload.to_client_id,
                                       req[r].payload.amount)
    /\ req' = [req EXCEPT ![r].pc = "t_inc", ![r].trace = Append(@, "inc")]
    /\ UNCHANGED <<transactionlog, admin, pre, now, sent>>

TransferDecrement(r) ==
    /\ req[r].pc = "t_dec"
    /\ client' = increment_field_by_id(client, req[r].payload.from_client_id,
                                       -req[r].payload.amount)
    /\ req' = [req EXCEPT ![r].pc = "t_inc", ![r].trace = Append(@, "inc")]
    /\ UNCHANGED <<transactionlog, admin, pre, now, sent>>

\* (mutant) the credit of the destination left out
TransferIncrementLost(r) ==
    /\ req[r].pc = "t_inc"
    /\ client' = client
    /\ req' = [req EXCEPT ![r].pc = "t_payout", ![r].trace = Append(@, "inc")]
    /\ UNCHANGED <<transactionlog, admin, pre, now, sent>>

TransferIncrement(r) ==
    /\ req[r].pc = "t_inc"
    /\ client' = increment_field_by_id(client, req[r].payload.to_client_id,
                                       req[r].payload.amount)
    /\ req' = [req EXCEPT ![r].pc = "t_payout", ![r].trace = Append(@, "inc")]
    /\ UNCHANGED <<transactionlog, admin, pre, now, sent>>

\* (mutant) a payout that failed posted a second time
TransferPayoutRetry(r) ==
    /\ req[r].pc = "t_payout"
    /\ \E first \in GatewayOutcomes, outcome \in GatewayOutcomes :
         LET rp == PayoutResult(outcome)
             request == PayoutRequest(TransferReferenceId(req[r].payload, now),
                                      req[r].payload.amount)
         IN /\ transactionlog' = create_document(transactionlog,
                                     TransferLogRecord(req[r].payload, rp))
            /\ req' = [req EXCEPT ![r] =
                  Done(r, Response(200, "processed", inserted_id(transactionlog),
                                   rp.status, rp.body),
                       IF first = "ok" THEN <<"payout", "insert">>
                       ELSE <<"payout", "payout", "insert">>)]
            /\ sent' = IF first = "ok" /\ outcome = "ok"
                       THEN Post(request)
                       ELSE Post(request) (+) SetToBag({request})
    /\ UNCHANGED <<client, admin, pre, now>>

\* requests.post, every failure caught; when the call has returned, the log
\* insert and the response
TransferPayout(r) ==
    /\ req[r].pc = "t_payout"
    /\ \E outcome \in GatewayOutcomes :
         LET rp == PayoutResult(outcome)
         IN /\ transactionlog' = create_document(transactionlog,
                                     TransferLogRecord(req[r].payload, rp))
            /\ req' = [req EXCEPT ![r] =
                  Done(r, Response(200, "processed", inserted_id(transactionlog),
                                   rp.status, rp.body), <<"payout", "insert">>)]
    /\ sent' = Post(PayoutRequest(TransferReferenceId(req[r].payload, now),
                                  req[r].payload.amount))
    /\ UNCHANGED <<client, admin, pre, now>>

\* ------------------------------------------------- the other endpoints
\* POST /api/admin/login: the first login of an email creates the admin;
\* later ones check the password and change nothing
AdminLogin ==
    /\ \E email \in Emails : admin' = admin \cup {email}
    /\ UNCHANGED <<client, transactionlog, req, pre, now, sent>>

\* GET /api/clients: a read
ListClients ==
    /\ \E authorization \in Headers :
         /\ authorization # NoHeader => Issued(authorization[2])
         /\ auth_dependency(authorization).code = 200
    /\ UNCHANGED <<store, req, pre, now, sent>>

\* POST /api/clients: the store generates the next id
AddClient ==
    /\ \E authorization \in Headers :
         /\ authorization # NoHeader => Issued(authorization[2])
         /\ auth_dependency(authorization).code = 200
         /\ \E id \in ClientIds, capital \in Capitals, profit \in Profits,
                name \in Names :
              /\ ~client[id].present
              /\ \A c \in ClientIds : c < id => client[c].present
              /\ client' = [client EXCEPT ![id] =
                    [present |-> TRUE, capital |-> capital, profit |-> profit,
                     name |-> name]]
    /\ UNCHANGED <<transactionlog, admin, req, pre, now, sent>>

\* PATCH /api/clients/{client_id}: an id that matches no document changes
\* nothing, whatever the fields
UpdateClient ==
    /\ \E authorization \in Headers :
         /\ authorization # NoHeader => Issued(authorization[2])
         /\ auth_dependency(authorization).code = 200
         /\ \E client_id \in PayloadIds :
              IF get_document_by_id(client, client_id).present
              THEN \E capital \in {<<>>} \cup {<<v>> : v \in Capitals},
                      profit \in {<<>>} \cup {<<v>> : v \in Profits} :
                     /\ ~(capital = <<>> /\ profit = <<>>)
                     /\ client' = update_document_by_id(client, client_id,
                                                        capital, profit)
              ELSE client' = update_document_by_id(client, client_id, <<0>>, <<>>)
    /\ UNCHANGED <<transactionlog, admin, req, pre, now, sent>>

Step(r) ==
    \/ WithdrawAdmit(r)
    \/ WithdrawLookup(r)
    \/ WithdrawPayout(r)
    \/ WithdrawLog(r)
    \/ TransferAdmit(r)
    \/ TransferLookupFrom(r)
    \/ TransferLookupTo(r)
    \/ TransferDecrement(r)
    \/ TransferIncrement(r)
    \/ TransferPayout(r)

AdminStep == AdminLogin \/ ListClients \/ AddClient \/ UpdateClient

\* requests of any number of workers, interleaved at their I/O calls
Next ==
    \/ \E r \in Reqs : Step(r)
    \/ AdminStep

Spec == Init /\ [][Next]_vars

\* ------------------------------------------- one request at a time
InFlight(r) == req[r].pc \notin {"idle", "done"}

Quiescent == \A r \in Reqs : ~InFlight(r)

Snapshot == [client |-> client, logs |-> Len(transactionlog)]

SeqWithdrawAdmit(r) ==
    Quiescent /\ WithdrawArrives(r) /\ pre' = Snapshot /\ UNCHANGED <<now, sent>>

SeqTransferAdmit(r) ==
    Quiescent /\ TransferArrives(r) /\ pre' = Snapshot /\ UNCHANGED <<now, sent>>

Run(r) ==
    \/ WithdrawLookup(r)
    \/ WithdrawPayout(r)
    \/ WithdrawLog(r)
    \/ TransferLookupFrom(r)
    \/ TransferLookupTo(r)
    \/ TransferDecrement(r)
    \/ TransferIncrement(r)
    \/ TransferPayout(r)

\* every request, and every admin call, runs to completion before the next
SeqNext ==
    \/ \E r \in Reqs : SeqWithdrawAdmit(r) \/ SeqTransferAdmit(r) \/ Run(r)
    \/ Quiescent /\ AdminStep

SeqSpec == Init /\ [][SeqNext]_vars

\* ------------------------------- concurrent requests on a loaded store
\* an admin has logged in and has created clients; from here on only
\* withdraw / transfer requests run, interleaved at their I/O calls
Stores ==
    {c \in [ClientIds -> {NoDoc} \cup [present : {TRUE}, capital : Capitals,
                                       profit : Profits, name : Names]] :
        \A i \in ClientIds, j \in ClientIds : (i < j /\ c[j].present) => c[i].present}

LoadedInit ==
    /\ client \in Stores
    /\ transactionlog = <<>>
    /\ admin = Emails
    /\ req = [r \in Reqs |-> Idle]
    /\ pre = [client |-> client, logs |-> 0]
    /\ now = 0
    /\ sent = EmptyBag

ConcNext == \E r \in Reqs : Step(r)

ConcSpec == LoadedInit /\ [][ConcNext]_vars

\* ------------------- concurrent requests on clients that have made profits
FrameProfits == {0, 1}

FrameStores ==
    {c \in [ClientIds -> {NoDoc} \cup [present : {TRUE}, capital : Capitals,
                                       profit : FrameProfits, name : Names]] :
        \A i \in ClientIds, j \in ClientIds : (i < j /\ c[j].present) => c[i].present}

FrameInit ==
    /\ client \in FrameStores
    /\ transactionlog = <<>>
    /\ admin = Emails
    /\ req = [r \in Reqs |-> Idle]
    /\ pre = [client |-> client, logs |-> 0]
    /\ now = 0
    /\ sent = EmptyBag

FrameSpec == FrameInit /\ [][ConcNext]_vars

\* ------------------------------- concurrent requests that are served
\* a worker that has taken a request runs its handler on: each store call
\* returns, and requests.post returns or raises within its timeout
LiveSpec == ConcSpec /\ \A r \in Reqs : WF_vars(Run(r))

\* ------------------------------------ the store calls and their results
\* PATCH /api/clients/{client_id} as a request that is answered: the fields
\* of ClientUpdate are <<>> (None) or <<value>>
PatchPayloads ==
    [client_id : PayloadIds,
     capital : {<<>>} \cup {<<v>> : v \in Capitals},
     profit : {<<>>} \cup {<<v>> : v \in Profits}]

AnyPatch == CHOOSE p \in PatchPayloads : TRUE

PatchRequest(r, authorization, payload) ==
    LET a == auth_dependency(authorization)
    IN req' = [req EXCEPT ![r] =
          IF a.code # 200
          THEN Rejected("update_client", a)
          ELSE IF payload.capital = <<>> /\ payload.profit = <<>>
          THEN Rejected("update_client", HTTPException(400, "No fields to update"))
          ELSE [Admitted("update_client", payload) EXCEPT !.pc = "p_update"]]

PatchAdmit(r) ==
    /\ CanAdmit(r)
    /\ \E authorization \in Headers :
         /\ authorization # NoHeader => Issued(authorization[2])
         /\ IF auth_dependency(authorization).code # 200
            THEN PatchRequest(r, authorization, AnyPatch)
            ELSE \E payload \in PatchPayloads :
                   PatchRequest(r, authorization, payload)
    /\ UNCHANGED <<store, pre, now, sent>>

\* ok = update_document_by_id(...); 404 when not ok
PatchUpdate(r) ==
    /\ req[r].pc = "p_update"
    /\ LET p == req[r].payload
           ok == update_document_by_id_returns(client, p.client_id,
                                               p.capital, p.profit)
       IN /\ client' = update_document_by_id(client, p.client_id,
                                             p.capital, p.profit)
          /\ req' = [req EXCEPT ![r] =
                Done(r, IF ~ok
                        THEN Failure(HTTPException(404, "Client not found"))
                        ELSE Response(200, "updated", 0, 0, "none"),
                     <<"update">>)]
    /\ UNCHANGED <<transactionlog, admin, pre, now, sent>>

StoreNext ==
    \E r \in Reqs :
        \/ PatchAdmit(r)
        \/ PatchUpdate(r)
        \/ WithdrawAdmit(r)
        \/ WithdrawLookup(r)
        \/ WithdrawPayout(r)
        \/ WithdrawLog(r)

StoreSpec == LoadedInit /\ [][StoreNext]_vars

\* ------------------------------------ concurrent requests while time passes
\* the clock of the host moves on to the next second
Tick ==
    /\ now < MaxClock
    /\ now' = now + 1
    /\ UNCHANGED <<store, req, pre, sent>>

ClockNext ==
    \/ \E r \in Reqs : Step(r)
    \/ Tick

ClockSpec == LoadedInit /\ [][ClockNext]_vars

\* ======================================================== the claims
Acted(r) == req'[r] # req[r]

Processed(r) ==
    req[r].pc = "done" /\ req[r].response.detail = "processed"

Last(log) == log[Len(log)]

Count(trace, event) == Cardinality({i \in 1..Len(trace) : trace[i] = event})

BothWithdrewAll(r1, r2) ==
    /\ r1 # r2
    /\ Processed(r1) /\ req[r1].kind = "withdraw"
    /\ Processed(r2) /\ req[r2].kind = "withdraw"
    /\ LET rec1 == transactionlog[req[r1].response.log_id]
           rec2 == transactionlog[req[r2].response.log_id]
       IN /\ rec1.client_id = rec2.client_id
          /\ rec1.amount > 0
          /\ rec1.amount = pre.client[rec1.client_id].capital
          /\ rec2.amount = pre.client[rec1.client_id].capital

HeadersAccepted == {<<"Bearer ", "good">>}

TransferEffect(p, c) ==
    (IF c = p.to_client_id THEN p.amount ELSE 0)
        - (IF c = p.from_client_id THEN p.amount ELSE 0)

NoEffects(trace) ==
    Count(trace, "inc") = 0 /\ Count(trace, "payout") = 0
        /\ Count(trace, "insert") = 0

Absent(id) == id \notin ClientIds \/ ~client[id].present

HeadersRefused ==
    {h \in Headers : h = NoHeader \/ h[1] # "Bearer " \/ h[2] \in {"expired", "forged"}}

NumProcessed == Cardinality({r \in Reqs : Processed(r)})

IsPrefix(s, t) == Len(s) <= Len(t) /\ SubSeq(t, 1, Len(s)) = s

Has(events, event) == \E i \in 1..Len(events) : events[i] = event

WithdrawOrder == <<"lookup", "payout", "inc", "insert">>

TransferOrder == <<"lookup", "lookup", "inc", "inc", "payout", "insert">>

\* the I/O the step of request r performs: what it adds to the trace
Performed(r) == SubSeq(req'[r].trace, Len(req[r].trace) + 1, Len(req'[r].trace))

RECURSIVE Sum(_, _)
Sum(f, S) ==
    IF S = {}
    THEN 0
    ELSE LET x == CHOOSE y \in S : TRUE
         IN f[x] + Sum(f, S \ {x})

TotalCapital(collection) ==
    Sum([c \in ClientIds |-> collection[c].capital], ClientIds)

\* the amounts of the transfers that have debited and not yet credited
DebitedNotCredited ==
    Sum([r \in Reqs |-> IF req[r].pc = "t_inc" THEN req[r].payload.amount ELSE 0],
        Reqs)

\* what the operation the gateway was sent request m for moves to client c
Moved(m, c) ==
    LET amount == m.amount \div 100
        ref == m.reference_id
    IN IF ref[1] = "wd"
       THEN IF ref[2] = c THEN -amount ELSE 0
       ELSE (IF ref[3] = c THEN amount ELSE 0) - (IF ref[2] = c THEN amount ELSE 0)

\* the processed operations, each named by the payout request it has sent
NetMoved(c) ==
    Sum([m \in BagToSet(sent) |-> CopiesIn(m, sent) * Moved(m, c)], BagToSet(sent))

\* request r is a withdraw or transfer past its checks that names client c
Moves(r, c) ==
    /\ InFlight(r)
    /\ \/ req[r].kind = "withdraw" /\ c = req[r].payload.client_id
       \/ /\ req[r].kind = "transfer"
          /\ c \in {req[r].payload.from_client_id, req[r].payload.to_client_id}

Deltas == Amounts \cup {-a : a \in Amounts}

FieldsToSet ==
    {f \in [capital : {<<>>} \cup {<<v>> : v \in Capitals},
            profit : {<<>>} \cup {<<v>> : v \in Profits}] :
        f.capital # <<>> \/ f.profit # <<>>}

\* C1: a Withdraw on an existing client with capital b and amount <= b, run
\* with nothing interleaved, passes the checks, leaves capital = b - amount
\* and adds exactly one log record: action "withdraw", that client, that
\* amount.
C1_WithdrawDebitsAndLogsOnce ==
    [][\A r \in Reqs :
         /\ ( /\ req[r].pc = "w_lookup" /\ Acted(r)
              /\ req[r].payload.client_id \in ClientIds
              /\ pre.client[req[r].payload.client_id].present
              /\ req[r].payload.amount <= pre.client[req[r].payload.client_id].capital )
            => req'[r].pc = "w_payout"
         /\ ( req[r].pc = "w_log" /\ req'[r].pc = "done" )
            => LET p == req[r].payload
                   b == pre.client[p.client_id].capital
               IN /\ p.amount <= b
                  /\ req'[r].response.detail = "processed"
                  /\ client'[p.client_id].capital = b - p.amount
                  /\ Len(transactionlog') = pre.logs + 1
                  /\ Last(transactionlog').action = "withdraw"
                  /\ Last(transactionlog').client_id = p.client_id
                  /\ Last(transactionlog').amount = p.amount
    ]_vars

C1_Witness ==
    \E r \in Reqs :
        /\ Processed(r) /\ req[r].kind = "withdraw"
        /\ Len(transactionlog) = pre.logs + 1
        /\ LET rec == transactionlog[req[r].response.log_id]
           IN /\ rec.amount > 0
              /\ pre.client[rec.client_id].capital >= rec.amount
              /\ client[rec.client_id].capital =
                     pre.client[rec.client_id].capital - rec.amount

\* C2: a Transfer of 0 < amount <= a between distinct existing clients A
\* (capital a) and B (capital b), run with nothing interleaved, passes the
\* checks, leaves A at a - amount and B at b + amount, and adds exactly one
\* log record, which references B with action "transfer".
C2_TransferMovesAndLogsOnce ==
    [][\A r \in Reqs :
         /\ ( /\ req[r].pc = "t_lookup_to" /\ Acted(r)
              /\ req[r].payload.from_client_id \in ClientIds
              /\ req[r].payload.to_client_id \in ClientIds
              /\ pre.client[req[r].payload.from_client_id].present
              /\ pre.client[req[r].payload.to_client_id].present
              /\ req[r].payload.amount <=
                     pre.client[req[r].payload.from_client_id].capital )
            => req'[r].pc = "t_dec"
         /\ ( /\ req[r].pc = "t_payout" /\ req'[r].pc = "done"
              /\ req[r].payload.from_client_id # req[r].payload.to_client_id )
            => LET p == req[r].payload
                   A == p.from_client_id
                   B == p.to_client_id
               IN /\ 0 < p.amount /\ p.amount <= pre.client[A].capital
                  /\ req'[r].response.detail = "processed"
                  /\ client'[A].capital = pre.client[A].capital - p.amount
                  /\ client'[B].capital = pre.client[B].capital + p.amount
                  /\ Len(transactionlog') = pre.logs + 1
                  /\ Last(transactionlog').action = "transfer"
                  /\ Last(transactionlog').client_id = B
                  /\ Last(transactionlog').amount = p.amount
    ]_vars

C2_Witness ==
    \E r \in Reqs, A \in ClientIds, B \in ClientIds :
        /\ A # B
        /\ Processed(r) /\ req[r].kind = "transfer"
        /\ Len(transactionlog) = pre.logs + 1
        /\ LET rec == transactionlog[req[r].response.log_id]
           IN /\ rec.client_id = B /\ rec.action = "transfer"
              /\ client[A].capital = pre.client[A].capital - rec.amount
              /\ client[B].capital = pre.client[B].capital + rec.amount

\* C3: the sufficiency check and the decrement of a withdraw are not atomic.
\* Two concurrent withdrawals of the whole capital of one client (exactly
\* enough for one) that are both processed leave capital = -amount: the
\* second decrement is applied although the balance no longer covers it.
\* The witness is that over-draft: both processed, capital negative.
C3_RaceOverdraws ==
    \A r1 \in Reqs, r2 \in Reqs :
        BothWithdrewAll(r1, r2)
        => LET rec == transactionlog[req[r1].response.log_id]
           IN /\ client[rec.client_id].capital = -rec.amount
              /\ client[rec.client_id].capital < 0

C3_Witness ==
    \E r1 \in Reqs, r2 \in Reqs :
        /\ BothWithdrewAll(r1, r2)
        /\ client[transactionlog[req[r1].response.log_id].client_id].capital < 0

\* C4: a Withdraw on an existing client whose capital is b, with amount > b,
\* fails with 400 "Insufficient balance"; the failing step changes nothing in
\* the store, and the request has made no gateway call, no increment and no
\* insert.
C4_InsufficientWithdrawRejected ==
    [][\A r \in Reqs :
         ( /\ req[r].pc = "w_lookup" /\ Acted(r)
           /\ req[r].payload.client_id \in ClientIds
           /\ client[req[r].payload.client_id].present
           /\ req[r].payload.amount > client[req[r].payload.client_id].capital )
         => /\ req'[r].pc = "done"
            /\ req'[r].response.code = 400
            /\ req'[r].response.detail = "Insufficient balance"
            /\ req'[r].trace = <<"lookup">>
            /\ UNCHANGED store
    ]_vars

C4_Witness ==
    \E r \in Reqs :
        /\ req[r].pc = "done" /\ req[r].kind = "withdraw"
        /\ req[r].response.code = 400
        /\ req[r].response.detail = "Insufficient balance"
        /\ transactionlog = <<>>

\* C5: a Transfer with amount <= 0 fails with 400 "Invalid amount" whatever
\* ids it names and whether or not they exist; it reads and changes nothing:
\* no lookup, no increment, no gateway call, no insert.
C5_NonPositiveTransferRejected ==
    [][\A r \in Reqs :
         ( req[r].pc = "idle" /\ Acted(r) ) =>
         \A authorization \in HeadersAccepted,
            payload \in {p \in TransferPayloads : p.amount <= 0} :
         TransferRequest(r, authorization, payload)
         => /\ req'[r].pc = "done"
            /\ req'[r].response.code = 400
            /\ req'[r].response.detail = "Invalid amount"
            /\ req'[r].trace = <<>>
            /\ UNCHANGED store
    ]_vars

C5_Witness ==
    \E r \in Reqs :
        /\ req[r].pc = "done" /\ req[r].kind = "transfer"
        /\ req[r].response.detail = "Invalid amount"
        /\ \A c \in ClientIds : ~client[c].present
        /\ transactionlog = <<>>

\* C6: a gateway failure (a non-2xx status, or an exception mapped to 500)
\* changes nothing else: the withdraw or transfer still applies its balance
\* mutation (with nothing interleaved, the balances end where a successful
\* call leaves them), writes exactly one log record whose external.status is
\* the failure status, and answers "processed".
C6_GatewayFailureStillProcessed ==
    [][\A r \in Reqs :
         /\ ( req[r].pc = "w_log" /\ req'[r].pc = "done" /\ req[r].rp.status # 200 )
            => LET p == req[r].payload
               IN /\ req[r].rp.status \in {400, 500}
                  /\ req'[r].response.detail = "processed"
                  /\ req'[r].response.rp_status = req[r].rp.status
                  /\ Count(req'[r].trace, "inc") = 1
                  /\ client'[p.client_id].capital =
                         pre.client[p.client_id].capital - p.amount
                  /\ Len(transactionlog') = pre.logs + 1
                  /\ Last(transactionlog').external.status = req[r].rp.status
         /\ ( /\ req[r].pc = "t_payout" /\ req'[r].pc = "done"
              /\ req'[r].response.rp_status # 200 )
            => LET p == req[r].payload
               IN /\ req'[r].response.rp_status \in {400, 500}
                  /\ req'[r].response.detail = "processed"
                  /\ Count(req'[r].trace, "inc") = 2
                  /\ \A c \in ClientIds :
                        client'[c].capital =
                            pre.client[c].capital + TransferEffect(p, c)
                  /\ Len(transactionlog') = pre.logs + 1
                  /\ Last(transactionlog').external.status =
                         req'[r].response.rp_status
    ]_vars

C6_Witness ==
    \E r \in Reqs :
        /\ Processed(r) /\ req[r].kind = "withdraw"
        /\ req[r].response.rp_status = 500
        /\ Len(transactionlog) = pre.logs + 1
        /\ LET rec == transactionlog[req[r].response.log_id]
           IN /\ rec.external.status = 500
              /\ rec.amount > 0
              /\ client[rec.client_id].capital =
                     pre.client[rec.client_id].capital - rec.amount

\* C7: a Withdraw or Transfer that ends in a validation failure (404 for an
\* absent client, 400 for an insufficient balance or an invalid amount) has
\* mutated nothing: the step that fails leaves the store as it was, and the
\* request has made no increment, no gateway call and no insert.  An absent
\* withdraw client, and a transfer with its source or its destination (or
\* both) absent, fail with 404.
C7_ValidationFailuresMutateNothing ==
    [][\A r \in Reqs :
         /\ ( /\ req[r].pc # "done" /\ req'[r].pc = "done"
              /\ req'[r].response.code \in {400, 404} )
            => UNCHANGED store /\ NoEffects(req'[r].trace)
         /\ ( /\ req[r].pc = "w_lookup" /\ Acted(r)
              /\ Absent(req[r].payload.client_id) )
            => req'[r].pc = "done" /\ req'[r].response.code = 404
         /\ ( /\ req[r].pc = "t_lookup_to" /\ Acted(r)
              /\ ~req[r].from_client.present \/ Absent(req[r].payload.to_client_id) )
            => req'[r].pc = "done" /\ req'[r].response.code = 404
    ]_vars

C7_Witness ==
    \E r \in Reqs :
        /\ req[r].pc = "done" /\ req[r].kind = "transfer"
        /\ req[r].response.code = 404
        /\ req[r].trace = <<"lookup", "lookup">>
        /\ \E c \in ClientIds : client[c].present /\ client[c].capital > 0
        /\ transactionlog = <<>>

\* C8: a Withdraw or Transfer whose Authorization header is missing, does not
\* start with "Bearer ", or carries an expired or an invalid token is
\* answered 401 at arrival: no store read, no mutation, no gateway call.
C8_UnauthorizedRejectedFirst ==
    [][\A r \in Reqs :
         ( req[r].pc = "idle" /\ Acted(r) ) =>
         /\ \A authorization \in HeadersRefused :
              ( \/ \E payload \in WithdrawPayloads :
                      WithdrawRequest(r, authorization, payload)
                \/ \E payload \in TransferPayloads :
                      TransferRequest(r, authorization, payload) )
              => /\ req'[r].pc = "done"
                 /\ req'[r].response.code = 401
                 /\ req'[r].trace = <<>>
                 /\ UNCHANGED store
         /\ ( req'[r].pc = "done" /\ req'[r].response.code = 401 )
            => req'[r].trace = <<>> /\ UNCHANGED store
    ]_vars

C8_Witness ==
    \E r1 \in Reqs, r2 \in Reqs :
        /\ req[r1].pc = "done" /\ req[r1].kind = "withdraw"
        /\ req[r1].response.code = 401
        /\ req[r1].response.detail = "Token expired"
        /\ req[r2].pc = "done" /\ req[r2].kind = "transfer"
        /\ req[r2].response.code = 401
        /\ req[r2].response.detail = "Authorization header missing"
        /\ \E c \in ClientIds : client[c].present

\* C9: the transaction log is append-only under every interleaving of login,
\* client create / list / patch, withdraw and transfer: a step never removes
\* or changes a record that exists, and whenever no request is in flight the
\* number of records is the number of requests answered "processed".
C9_LogAppendOnly ==
    [][ /\ Len(transactionlog') >= Len(transactionlog)
        /\ \A i \in 1..Len(transactionlog) : transactionlog'[i] = transactionlog[i]
        /\ Quiescent' => Len(transactionlog') = NumProcessed'
    ]_vars

C9_Witness ==
    /\ Quiescent
    /\ Len(transactionlog) = 2
    /\ transactionlog[1].action = "withdraw"
    /\ transactionlog[2].action = "transfer"
    /\ NumProcessed = 2

\* C10 (as claimed): every log record ever written has amount > 0.
C10_LogAmountsPositive ==
    \A i \in 1..Len(transactionlog) : transactionlog[i].amount > 0

\* C11 (as claimed): any two distinct processed withdraw / transfer operations
\* have sent the gateway different reference_ids, two withdrawals of one
\* client, or two transfers between one pair of clients, that start in the
\* same clock second included: when every request has finished, no
\* reference_id has been sent twice.
C11_ReferenceIdsUnique ==
    Quiescent =>
        \A m1 \in BagToSet(sent), m2 \in BagToSet(sent) :
            m1.reference_id = m2.reference_id
            => m1 = m2 /\ CopiesIn(m1, sent) = 1

\* C12: a Withdraw or Transfer that passes validation makes exactly one call
\* to the payout gateway, whatever the call's outcome (a failure is not
\* retried); a request that fails validation makes none.  So a finished
\* request has called once if it was processed and never otherwise, no
\* request ever calls twice, and the gateway has received exactly the calls
\* the requests have made.
C12_OneGatewayCallEach ==
    /\ \A r \in Reqs :
         /\ req[r].pc = "done"
            => Count(req[r].trace, "payout") = IF Processed(r) THEN 1 ELSE 0
         /\ InFlight(r) => Count(req[r].trace, "payout") <= 1
    /\ BagCardinality(sent) =
           Cardinality({r \in Reqs : /\ req[r].pc # "idle"
                                     /\ Count(req[r].trace, "payout") > 0})

C12_Witness ==
    \E r1 \in Reqs, r2 \in Reqs :
        /\ Processed(r1) /\ req[r1].response.rp_status = 500
        /\ Count(req[r1].trace, "payout") = 1
        /\ req[r2].pc = "done" /\ req[r2].response.code = 400
        /\ Count(req[r2].trace, "payout") = 0
        /\ BagCardinality(sent) = 1

\* C13 (as claimed): the store primitives fail softly.  For a malformed id or
\* an id with no record, lookup returns absent and increment and updateFields
\* return false, and the stored records are as they were; for the id of a
\* record that exists, increment and updateFields (which are then applied to
\* it) return true.
C13_StoreFailsSoftly ==
    \A id \in PayloadIds :
        /\ Absent(id)
           => /\ get_document_by_id(client, id) = NoDoc
              /\ \A delta \in Deltas :
                    /\ ~increment_field_by_id_returns(client, id, delta)
                    /\ increment_field_by_id(client, id, delta) = client
              /\ \A f \in FieldsToSet :
                    /\ ~update_document_by_id_returns(client, id, f.capital, f.profit)
                    /\ update_document_by_id(client, id, f.capital, f.profit) = client
        /\ ~Absent(id)
           => /\ \A delta \in Deltas :
                    increment_field_by_id_returns(client, id, delta)
              /\ \A f \in FieldsToSet :
                    update_document_by_id_returns(client, id, f.capital, f.profit)

\* C14: the steps of one request come in a fixed order.  Withdraw: the
\* gateway call, then the decrement of capital, then the log insert.
\* Transfer: the debit of the source, then the credit of the destination,
\* then the gateway call, then the log insert.  In both the insert is the
\* last store write (the request is finished by it) and comes only when the
\* balance mutation has been applied.  The trace of every request is a
\* prefix of that order, and a step writes to the store, or posts to the
\* gateway, exactly what the events it adds to the trace say.
C14_StepOrder ==
    [][\A r \in Reqs :
         /\ req'[r].pc # "idle"
            => IsPrefix(req'[r].trace,
                        IF req'[r].kind = "withdraw" THEN WithdrawOrder
                        ELSE TransferOrder)
         /\ ( req[r].pc = "idle" /\ Acted(r) )
            => req'[r].trace = <<>> /\ UNCHANGED <<store, sent>>
         /\ ( InFlight(r) /\ Acted(r) )
            => LET p == req[r].payload
                   done == Performed(r)
                   first == Count(req[r].trace, "inc") = 0
               IN /\ client' =
                        IF ~Has(done, "inc") THEN client
                        ELSE IF req[r].kind = "withdraw"
                        THEN increment_field_by_id(client, p.client_id, -p.amount)
                        ELSE IF first
                        THEN increment_field_by_id(client, p.from_client_id, -p.amount)
                        ELSE increment_field_by_id(client, p.to_client_id, p.amount)
                  /\ BagCardinality(sent') =
                        BagCardinality(sent) + Count(done, "payout")
                  /\ Len(transactionlog') =
                        Len(transactionlog) + Count(done, "insert")
                  /\ Has(done, "insert")
                     => /\ req'[r].pc = "done"
                        /\ Count(req'[r].trace, "inc") =
                              IF req[r].kind = "withdraw" THEN 1 ELSE 2
    ]_vars

C14_Witness ==
    \E r1 \in Reqs, r2 \in Reqs :
        /\ req[r1].pc = "done" /\ req[r1].kind = "withdraw"
        /\ req[r1].trace = WithdrawOrder
        /\ req[r2].pc = "done" /\ req[r2].kind = "transfer"
        /\ req[r2].trace = TransferOrder
        /\ \E c \in ClientIds : client[c].capital # pre.client[c].capital

\* C15: transfers conserve the total capital at completion only.  While the
\* requests are transfers (a transfer of a client to itself included), the
\* sum of capital over all clients is the sum before they started minus the
\* amounts of the transfers that are between their debit and their credit:
\* the same sum once every transfer has finished, and lower by the amount of
\* a transfer while it is between the two.  The witness is such a state,
\* read by another request.
C15_TransfersConserveAtCompletion ==
    (\A r \in Reqs : req[r].kind # "withdraw")
    => /\ TotalCapital(client) = TotalCapital(pre.client) - DebitedNotCredited
       /\ Quiescent => TotalCapital(client) = TotalCapital(pre.client)

C15_Witness ==
    \E r1 \in Reqs, r2 \in Reqs :
        /\ req[r1].pc = "t_inc" /\ req[r1].payload.amount > 0
        /\ req[r2].pc = "t_lookup_to"
        /\ req[r2].payload.from_client_id = req[r1].payload.from_client_id
        /\ req[r2].from_client.capital =
               pre.client[req[r1].payload.from_client_id].capital
                   - req[r1].payload.amount
        /\ TotalCapital(client) =
               TotalCapital(pre.client) - req[r1].payload.amount

\* C16: no update is lost.  Once all requests have finished, under every
\* interleaving of withdraws and transfers, each client's capital is its
\* initial capital minus the amounts of the processed withdrawals and
\* outgoing transfers on it plus the amounts of the processed incoming
\* transfers.  (The processed operations are the requests answered
\* "processed"; each has sent the gateway one payout request, which names
\* its kind, its clients and its amount, and has inserted one log record.)
C16_NoLostUpdates ==
    Quiescent
    => /\ BagCardinality(sent) = NumProcessed
       /\ Len(transactionlog) = NumProcessed
       /\ \A c \in ClientIds :
             client[c].capital = pre.client[c].capital + NetMoved(c)

C16_Witness ==
    /\ Quiescent
    /\ NumProcessed = 2
    /\ \E c \in ClientIds :
         /\ \A m \in BagToSet(sent) : Moved(m, c) < 0
         /\ client[c].capital = pre.client[c].capital + NetMoved(c)
         /\ client[c].capital < 0

\* C17: with the requests run one at a time (each to its end before the next
\* starts) from clients whose capital is >= 0, the capital of every client
\* is >= 0 in every state, so after every request, whatever the amounts: a
\* zero or negative withdraw amount passes the balance check and does not
\* lower the capital.
C17_SequentialCapitalNonNegative ==
    \A c \in ClientIds : client[c].capital >= 0

C17_Witness ==
    /\ Quiescent
    /\ \E i \in 1..Len(transactionlog), j \in 1..Len(transactionlog) :
         /\ transactionlog[i].action = "withdraw"
         /\ transactionlog[i].amount < 0
         /\ transactionlog[j].amount > 0
         /\ client[transactionlog[j].client_id].capital = 0
    /\ \A c \in ClientIds : client[c].capital >= 0

\* C18: every admitted Withdraw or Transfer eventually finishes, with one of
\* the validation failures or with "processed", whatever the gateway answers
\* (success, error, timeout) and however the requests interleave; and no
\* request waits on another: a request in flight can always take its next
\* step, whatever state the other requests are in.
C18_AdmittedRequestsFinish ==
    /\ \A r \in Reqs :
          InFlight(r) ~> ( /\ req[r].pc = "done"
                           /\ \/ Processed(r)
                              \/ req[r].response.code \in {400, 404} )
    /\ [](\A r \in Reqs : InFlight(r) => ENABLED Run(r))

C18_Witness ==
    \E r1 \in Reqs, r2 \in Reqs :
        /\ Processed(r1) /\ req[r1].kind = "withdraw"
        /\ req[r1].response.rp_status = 500
        /\ Processed(r2) /\ req[r2].kind = "transfer"
        /\ req[r2].response.rp_status = 400

\* C19: for every processed Withdraw or Transfer the log_id of the response
\* names the record that this request has inserted (a record that was not
\* there before its insert, with the request's action, client and amount),
\* and the gateway result of the response is the external snapshot of that
\* record; also when other requests insert at the same time: the responses
\* of two processed requests never name the same record.
C19_ResponseNamesOwnRecord ==
    [][\A r \in Reqs :
         /\ ( req[r].pc \in {"w_log", "t_payout"} /\ Acted(r) )
            => LET id == req'[r].response.log_id
                   p == req[r].payload
               IN /\ req'[r].response.detail = "processed"
                  /\ id = Len(transactionlog) + 1
                  /\ Len(transactionlog') = id
                  /\ transactionlog'[id].action = req[r].kind
                  /\ transactionlog'[id].amount = p.amount
                  /\ transactionlog'[id].client_id =
                        IF req[r].kind = "withdraw" THEN p.client_id
                        ELSE p.to_client_id
         /\ Processed(r)'
            => LET id == req'[r].response.log_id
               IN /\ id \in 1..Len(transactionlog')
                  /\ transactionlog'[id].action = req'[r].kind
                  /\ transactionlog'[id].external =
                        [status |-> req'[r].response.rp_status,
                         body |-> req'[r].response.rp_body]
                  /\ \A q \in Reqs \ {r} :
                        Processed(q)' => req'[q].response.log_id # id
    ]_vars

C19_Witness ==
    \E r1 \in Reqs, r2 \in Reqs :
        /\ r1 < r2
        /\ Processed(r1) /\ req[r1].response.log_id = 2
        /\ Processed(r2) /\ req[r2].response.log_id = 1
        /\ req[r1].response.rp_status # req[r2].response.rp_status
        /\ transactionlog[2].external.status = req[r1].response.rp_status
        /\ transactionlog[1].external.status = req[r2].response.rp_status

\* C20: the frame of the money movements.  A step of a Withdraw changes no
\* stored field but the capital of the client named by client_id, a step of
\* a Transfer none but the capital of the clients named by from_client_id
\* and to_client_id: the capital of every other client, the profit and the
\* contact fields of every client, the set of clients, the admins and every
\* log record that exists stay as they are; the only other effect is one
\* record appended to the log.
C20_MoneyMovementFrame ==
    [][ /\ \A c \in ClientIds :
             /\ client'[c].present = client[c].present
             /\ client'[c].profit = client[c].profit
             /\ client'[c].name = client[c].name
             /\ client'[c].capital # client[c].capital
                => \E r \in Reqs : Acted(r) /\ Moves(r, c)
        /\ admin' = admin
        /\ Len(transactionlog') \in {Len(transactionlog), Len(transactionlog) + 1}
        /\ \A i \in 1..Len(transactionlog) : transactionlog'[i] = transactionlog[i]
    ]_vars

C20_Witness ==
    \E r \in Reqs, c \in ClientIds, d \in ClientIds :
        /\ c # d
        /\ Processed(r) /\ req[r].kind = "withdraw"
        /\ transactionlog[req[r].response.log_id].client_id = c
        /\ client[c].capital # pre.client[c].capital
        /\ client[c].profit = 1 /\ pre.client[c].profit = 1
        /\ client[c].name = pre.client[c].name
        /\ client[d].present /\ client[d].profit = 1
        /\ client[d] = pre.client[d]

====
